---------------------------- MODULE Spec2Model ----------------------------
(***************************************************************************)
(* Model of the character-device and pseudo-filesystem I/O layer:          *)
(*   api/src/file/stdio.rs      FileLike Stdin / Stdout                    *)
(*   core/src/file/dev/tty.rs   VFS Tty nodes, TtyState ioctl              *)
(*   api/src/imp/random.rs      random / sys_getrandom                     *)
(*   core/src/file/proc/selfs.rs  /proc/self/exe, /proc/self/fd            *)
(***************************************************************************)
EXTENDS Integers, Sequences, FiniteSets, TLC

(***************************************************************************)
(* Bounds of the model.                                                    *)
(***************************************************************************)
\* number of bytes the console delivers in one run
MaxInput == 2
\* longest caller buffer handed to read / write
MaxBufLen == 2
\* the per-call counters of transport reads and yields saturate here
MaxCount == 2
\* number of bytes the console accepts in one run
MaxOutput == 2

\* capacity of the BufReader's internal buffer (axio DEFAULT_BUF_SIZE = 1024,
\* scaled down so that the bypass of the internal buffer happens)
BufCapacity == 2

Tasks == {"t1", "t2"}
\* the two static BufReader instances: stdio.rs:101 and tty.rs:235
Streams == {"api", "vfs"}
Adapters == {"FileLike", "Tty"}
Roles == {"Stdin", "Stdout"}

CR == 13
NL == 10
\* bytes the console may deliver / a caller may write: '\r' and 'a'
SampleBytes == {13, 97}

Min(a, b) == IF a <= b THEN a ELSE b

SeqsUpTo(S, n) == UNION {[1..k -> S] : k \in 0..n}

VARIABLES
    \* ---- console and buffered streams ----
    console,    \* bytes the console holds and has not handed to a reader yet
    arrived,    \* number of bytes the console has received so far
    out,        \* bytes written to the console transport, in order
    buf,        \* buf[s]: unconsumed content of the BufReader of stream s
    lock,       \* lock[s]: task holding the Mutex of stream s, or "none"
    \* ---- per task: position in the current call and its locals ----
    pc,         \* "idle" | "lock" | "raw" | "yield" | "done"
    op,         \* "none" | "read" | "write"
    adapter,    \* adapter variant the call goes through
    role,       \* role of the node the call goes through
    blen,       \* length of the caller's buffer
    inloop,     \* FALSE: first read of read_blocked, TRUE: a read inside the loop
    direct,     \* TRUE: BufReader::read bypasses the internal buffer
    part,       \* bytes StdinRaw::read has collected so far
    ret,        \* value returned (a count)
    err,        \* error returned, or "none"
    rdata,      \* bytes handed to the caller
    treads,     \* console transport reads made by the current call (saturating)
    yields      \* yield_now calls made by the current call (saturating)

VARIABLES
    \* ---- terminal control state ----
    tstate,     \* the TtyState of one TtyStdin object, alive over many ioctls
    umem,       \* the user's argument buffer: one cell per argument type
    last,       \* the last ioctl: target, command, argument, result
    setLog,     \* per field, the value last set on the object ("unset": never)
    nodeSet,    \* the last successful set ioctl issued through a device node
    halted      \* the kernel has panicked

VARIABLES
    \* ---- PRNG service ----
    seed,       \* PARK_MILLER_LEHMER_SEED, a u32
    draws,      \* number of random() calls made so far
    rpc,        \* sys_getrandom: "idle" | "fill" | "done"
    rlen,       \* its buflen
    rflags,     \* its flags
    rbuf,       \* bytes written to the user buffer so far
    rlog,       \* the values random() returned to this call, in order
    rret,       \* the value it returned
    \* ---- two generator instances given one seed ----
    given,      \* the seed both are given (the first value of the time source)
    gen,        \* gen[g]: the stored seed of instance g
    outs,       \* outs[g]: the values instance g returned, in order
    ins         \* ins[g]: the seed each call of instance g started its rounds from

VARIABLES
    \* ---- /proc/self/fd ----
    entry,      \* fd of the SelfFdEntry the caller holds, -1: none
    plast       \* the last operation on /proc/self/fd and its result

VARIABLES
    \* ---- poll ----
    pfill,      \* pfill[t]: the fill TtyStdin::poll is in: 1 has_data_left,
                \* 2 fill_buf, 0 none
    pres,       \* pres[t]: what the last poll of task t returned and found
    \* ---- history of the console input ----
    hist,       \* every byte the console received, in order
    delivered,  \* the bytes the read calls returned, in the order of their return
    attempts    \* attempts[t]: `self.inner.lock().read(buf)` attempts of the
                \* current call of task t (saturating)

VARIABLES
    \* ---- the normaliser applied to one slice ----
    cio,        \* the last console_read_bytes / console_write_bytes call
    \* ---- /proc/self/exe and the listing of /proc/self/fd ----
    elast,      \* the last readlink on /proc/self/exe and its result
    dlast,      \* the last read_dir on /proc/self/fd and its result
    dnext,      \* the start index of the next read_dir of the listing under way
    dcap,       \* the capacity the listing under way is read with, 0: none
    dlist,      \* the names the listing under way has returned so far
    ddone       \* the listing under way has ended: a read_dir returned 0

ioVars == <<console, arrived, out, buf, lock, pc, op, adapter, role, blen,
            inloop, direct, part, ret, err, rdata, treads, yields>>
ttyVars == <<tstate, umem, last, setLog, nodeSet, halted>>

randVars == <<seed, draws, rpc, rlen, rflags, rbuf, rlog, rret, given, gen, outs,
              ins>>
procVars == <<entry, plast>>
pollVars == <<pfill, pres>>
histVars == <<hist, delivered, attempts>>
cioVars == <<cio>>
selfVars == <<elast, dlast, dnext, dcap, dlist, ddone>>

vars == <<ioVars, ttyVars, randVars, procVars, pollVars, histVars, cioVars,
          selfVars>>

\* what the actions of one area leave alone; the actions on the console
\* streams say themselves what they do to the history
notStream == <<ttyVars, randVars, procVars, cioVars, selfVars>>
notIO == <<notStream, pollVars>>
notTty == <<ioVars, randVars, procVars, pollVars, histVars, cioVars, selfVars>>
notRand == <<ioVars, ttyVars, procVars, pollVars, histVars, cioVars, selfVars>>
notProc == <<ioVars, ttyVars, randVars, pollVars, histVars, cioVars, selfVars>>
notCio == <<ioVars, ttyVars, randVars, procVars, pollVars, histVars, selfVars>>
notSelf == <<ioVars, ttyVars, randVars, procVars, pollVars, histVars, cioVars>>

StreamOf(a) == IF a = "FileLike" THEN "api" ELSE "vfs"

Sat(n) == Min(n + 1, MaxCount)

\* the count of attempts saturates two later than the count of yields
SatAttempts(n) == Min(n + 1, MaxCount + 2)

(***************************************************************************)
(* Console transport and line-ending normaliser.                           *)
(***************************************************************************)
\* axhal::console::read_bytes on a buffer of m bytes: non-blocking, hands over
\* the bytes the console holds, at most m, and 0 when it holds none
axhal_read_bytes(q, m) == Min(m, Len(q))

\* the same without the loop over `&mut buf[..len]`
console_read_bytes_untranslated(q, m) ==
    LET len == axhal_read_bytes(q, m)
    IN  [len |-> len, buf |-> [i \in 1..m |-> IF i <= len THEN q[i] ELSE 0]]

\* console_read_bytes on a slice of m bytes, the console holding q:
\* the slice is overwritten by kernel_buf, the first len bytes CR -> NL
console_read_bytes(q, m) ==
    LET len == axhal_read_bytes(q, m)
        kernel_buf == [i \in 1..m |-> IF i <= len THEN q[i] ELSE 0]
    IN  [len |-> len,
         buf |-> [i \in 1..m |->
                    IF i <= len /\ kernel_buf[i] = CR THEN NL ELSE kernel_buf[i]]]

\* console_write_bytes: the bytes go to the transport as they are
console_write_bytes(b) == [written |-> b, len |-> Len(b)]

InitIO ==
    /\ console = <<>>
    /\ arrived = 0
    /\ out = <<>>
    /\ buf = [s \in Streams |-> <<>>]
    /\ lock = [s \in Streams |-> "none"]
    /\ pc = [t \in Tasks |-> "idle"]
    /\ op = [t \in Tasks |-> "none"]
    /\ adapter = [t \in Tasks |-> "FileLike"]
    /\ role = [t \in Tasks |-> "Stdin"]
    /\ blen = [t \in Tasks |-> 0]
    /\ inloop = [t \in Tasks |-> FALSE]
    /\ direct = [t \in Tasks |-> FALSE]
    /\ part = [t \in Tasks |-> <<>>]
    /\ ret = [t \in Tasks |-> 0]
    /\ err = [t \in Tasks |-> "none"]
    /\ rdata = [t \in Tasks |-> <<>>]
    /\ treads = [t \in Tasks |-> 0]
    /\ yields = [t \in Tasks |-> 0]

\* the console receives one byte (the environment)
Arrive(b) ==
    /\ arrived < MaxInput
    /\ console' = Append(console, b)
    /\ arrived' = arrived + 1
    /\ UNCHANGED <<out, buf, lock, pc, op, adapter, role, blen, inloop, direct,
                   part, ret, err, rdata, treads, yields>>
    /\ UNCHANGED notIO


(***************************************************************************)
(* Entry of a call: FileLike read / write (stdio.rs:111-173) and           *)
(* Tty::read_at / Tty::write_at (tty.rs:295-313).                          *)
(***************************************************************************)
\* error of a read on an output-only node / a write on an input-only node
FileLike_denied == "EPERM"
Tty_denied == "PermissionDenied"

WrongDirection(o, r) == (o = "read" /\ r = "Stdout") \/ (o = "write" /\ r = "Stdin")

\* task t calls operation o with data d (a write) or a buffer of n bytes (a
\* read) on the node of role r through adapter a
Call(t, a, r, o, n, d) ==
    /\ pc[t] \in {"idle", "done"}
    /\ o = "read" => d = <<>>
    /\ o = "write" => n = Len(d)
    /\ (o = "write" /\ r = "Stdout") => Len(out) + Len(d) <= MaxOutput
    /\ op' = [op EXCEPT ![t] = o]
    /\ adapter' = [adapter EXCEPT ![t] = a]
    /\ role' = [role EXCEPT ![t] = r]
    /\ blen' = [blen EXCEPT ![t] = n]
    /\ inloop' = [inloop EXCEPT ![t] = FALSE]
    /\ direct' = [direct EXCEPT ![t] = FALSE]
    /\ part' = [part EXCEPT ![t] = <<>>]
    /\ ret' = [ret EXCEPT ![t] = 0]
    /\ treads' = [treads EXCEPT ![t] = 0]
    /\ yields' = [yields EXCEPT ![t] = 0]
    /\ IF WrongDirection(o, r)
       THEN /\ err' = [err EXCEPT ![t] =
                         IF a = "FileLike" THEN FileLike_denied ELSE Tty_denied]
            /\ pc' = [pc EXCEPT ![t] = "done"]
            /\ rdata' = [rdata EXCEPT ![t] = <<>>]
       ELSE /\ err' = [err EXCEPT ![t] = "none"]
            /\ pc' = [pc EXCEPT ![t] = IF o = "read" THEN "lock" ELSE "wlock"]
            /\ rdata' = [rdata EXCEPT ![t] = d]
    /\ UNCHANGED <<console, arrived, out, buf, lock>>
    /\ UNCHANGED notIO

(***************************************************************************)
(* Buffered blocking reader: read_blocked (stdio.rs:63-77, tty.rs:165-177) *)
(* over BufReader::read over StdinRaw::read (stdio.rs:32-45, tty.rs:134).  *)
(***************************************************************************)
\* the first test without `buf.is_empty()`
ReturnsAfterFirstRead_nonzero(n, read_len) == read_len > 0

\* `if buf.is_empty() || read_len > 0 { return Ok(read_len) }` after the first read
ReturnsAfterFirstRead(n, read_len) == n = 0 \/ read_len > 0

\* a loop without its return
ReturnsInLoop_never(read_len) == FALSE

\* a loop that returns whatever the read returned (`>=` for `>`)
ReturnsInLoop_any(read_len) == read_len >= 0

\* `if read_len > 0 { return Ok(read_len) }` inside the loop
ReturnsInLoop(read_len) == read_len > 0

\* a read_blocked that yields after its first read as well
read_blocked_step_yielding_first(t, read_len, data) ==
    IF (~inloop[t] /\ ReturnsAfterFirstRead(blen[t], read_len))
         \/ (inloop[t] /\ ReturnsInLoop(read_len))
    THEN /\ pc' = [pc EXCEPT ![t] = "done"]
         /\ ret' = [ret EXCEPT ![t] = read_len]
         /\ rdata' = [rdata EXCEPT ![t] = data]
         /\ inloop' = [inloop EXCEPT ![t] = FALSE]
         /\ UNCHANGED yields
    ELSE /\ pc' = [pc EXCEPT ![t] = "yield"]
         /\ inloop' = [inloop EXCEPT ![t] = TRUE]
         /\ yields' = [yields EXCEPT ![t] = Sat(yields[t])]
         /\ UNCHANGED <<ret, rdata>>

\* what read_blocked does with the result of one `self.inner.lock().read(buf)`,
\* the guard of the lock being dropped at the end of that statement
read_blocked_step(t, read_len, data) ==
    IF (~inloop[t] /\ ReturnsAfterFirstRead(blen[t], read_len))
         \/ (inloop[t] /\ ReturnsInLoop(read_len))
    THEN \* return Ok(read_len)
         /\ pc' = [pc EXCEPT ![t] = "done"]
         /\ ret' = [ret EXCEPT ![t] = read_len]
         /\ rdata' = [rdata EXCEPT ![t] = data]
         /\ inloop' = [inloop EXCEPT ![t] = FALSE]
         /\ UNCHANGED yields
    ELSE IF ~inloop[t]
    THEN \* falls into `loop`: the next read follows at once
         /\ pc' = [pc EXCEPT ![t] = "lock"]
         /\ inloop' = [inloop EXCEPT ![t] = TRUE]
         /\ UNCHANGED <<ret, rdata, yields>>
    ELSE \* axtask::yield_now()
         /\ pc' = [pc EXCEPT ![t] = "yield"]
         /\ yields' = [yields EXCEPT ![t] = Sat(yields[t])]
         /\ UNCHANGED <<ret, rdata, inloop>>

\* BufReader::read bypasses its buffer when it is empty and the caller's
\* buffer is at least as large
BufReader_bypass(b, n) == b = <<>> /\ n >= BufCapacity

\* a copy out of the buffer that forgets what the caller did not take
BufReader_take_dropping(b, n) ==
    LET nread == Min(n, Len(b))
    IN  [nread |-> nread, data |-> SubSeq(b, 1, nread), rest |-> <<>>]

\* the rest of BufReader::read once the buffer b is filled:
\* copy min(n, len) bytes out and consume them
BufReader_take(b, n) ==
    LET nread == Min(n, Len(b))
    IN  [nread |-> nread, data |-> SubSeq(b, 1, nread),
         rest |-> SubSeq(b, nread + 1, Len(b))]

\* `self.inner.lock()` succeeds and BufReader::read starts
LockAndRead(t) ==
    LET s == StreamOf(adapter[t]) IN
    /\ pc[t] = "lock"
    /\ lock[s] = "none"
    /\ IF buf[s] = <<>>
       THEN \* the inner reader is asked: StdinRaw::read starts
            /\ lock' = [lock EXCEPT ![s] = t]
            /\ pc' = [pc EXCEPT ![t] = "raw"]
            /\ direct' = [direct EXCEPT ![t] = BufReader_bypass(buf[s], blen[t])]
            /\ part' = [part EXCEPT ![t] = <<>>]
            /\ UNCHANGED <<buf, ret, rdata, inloop, yields>>
       ELSE \* served from the buffer; the lock is taken and dropped
            LET r == BufReader_take(buf[s], blen[t]) IN
            /\ buf' = [buf EXCEPT ![s] = r.rest]
            /\ read_blocked_step(t, r.nread, r.data)
            /\ UNCHANGED <<lock, direct, part>>
    /\ UNCHANGED <<console, arrived, out, op, adapter, role, blen, err, treads>>
    /\ UNCHANGED notIO

\* the same turn with the guard of the lock kept over the yield_now
RawRead_guard_kept(t) ==
    LET s == StreamOf(adapter[t])
        target == IF direct[t] THEN blen[t] ELSE BufCapacity
        r == console_read_bytes(console, target - Len(part[t]))
        got == part[t] \o SubSeq(r.buf, 1, r.len)
    IN
    /\ pc[t] = "raw"
    /\ console' = SubSeq(console, r.len + 1, Len(console))
    /\ treads' = [treads EXCEPT ![t] = Sat(treads[t])]
    /\ IF r.len = 0 \/ Len(got) >= target
       THEN /\ part' = [part EXCEPT ![t] = <<>>]
            /\ IF direct[t]
               THEN /\ read_blocked_step(t, Len(got), got)
                    /\ UNCHANGED buf
               ELSE LET k == BufReader_take(got, blen[t]) IN
                    /\ buf' = [buf EXCEPT ![s] = k.rest]
                    /\ read_blocked_step(t, k.nread, k.data)
            /\ lock' = [lock EXCEPT ![s] = IF pc'[t] = "yield" THEN t ELSE "none"]
       ELSE /\ part' = [part EXCEPT ![t] = got]
            /\ UNCHANGED <<lock, buf, pc, ret, rdata, inloop, yields>>
    /\ direct' = [direct EXCEPT ![t] =
                     direct[t] /\ ~(r.len = 0 \/ Len(got) >= target)]
    /\ UNCHANGED <<arrived, out, op, adapter, role, blen, err>>
    /\ UNCHANGED notIO

\* one turn of the loop of StdinRaw::read: one console_read_bytes on the
\* rest of the target buffer; the loop ends on len = 0 or a full buffer
RawRead(t) ==
    LET s == StreamOf(adapter[t])
        target == IF direct[t] THEN blen[t] ELSE BufCapacity
        r == console_read_bytes(console, target - Len(part[t]))
        got == part[t] \o SubSeq(r.buf, 1, r.len)
    IN
    /\ pc[t] = "raw"
    /\ console' = SubSeq(console, r.len + 1, Len(console))
    /\ treads' = [treads EXCEPT ![t] = Sat(treads[t])]
    /\ IF r.len = 0 \/ Len(got) >= target
       THEN /\ lock' = [lock EXCEPT ![s] = "none"]
            /\ part' = [part EXCEPT ![t] = <<>>]
            /\ IF direct[t]
               THEN /\ read_blocked_step(t, Len(got), got)
                    /\ UNCHANGED buf
               ELSE LET k == BufReader_take(got, blen[t]) IN
                    /\ buf' = [buf EXCEPT ![s] = k.rest]
                    /\ read_blocked_step(t, k.nread, k.data)
       ELSE /\ part' = [part EXCEPT ![t] = got]
            /\ UNCHANGED <<lock, buf, pc, ret, rdata, inloop, yields>>
    /\ direct' = [direct EXCEPT ![t] =
                     direct[t] /\ ~(r.len = 0 \/ Len(got) >= target)]
    /\ UNCHANGED <<arrived, out, op, adapter, role, blen, err>>
    /\ UNCHANGED notIO

\* the scheduler resumes a task that yielded
Resume(t) ==
    /\ pc[t] = "yield"
    /\ pc' = [pc EXCEPT ![t] = "lock"]
    /\ UNCHANGED <<console, arrived, out, buf, lock, op, adapter, role, blen,
                   inloop, direct, part, ret, err, rdata, treads, yields>>
    /\ UNCHANGED notIO

(***************************************************************************)
(* Write path: Stdout::write (stdio.rs:148-150), TtyStdout::write_bytes    *)
(* (tty.rs:229-231) over console_write_bytes.                              *)
(***************************************************************************)
\* `self.inner.lock().write(buf)`: the bytes are handed to the transport
\* under the lock of the adapter's static output instance
Write(t) ==
    LET w == console_write_bytes(rdata[t]) IN
    /\ pc[t] = "wlock"
    /\ out' = out \o w.written
    /\ ret' = [ret EXCEPT ![t] = w.len]
    /\ pc' = [pc EXCEPT ![t] = "done"]
    /\ UNCHANGED <<console, arrived, buf, lock, op, adapter, role, blen, inloop,
                   direct, part, err, rdata, treads, yields>>
    /\ UNCHANGED notIO

(***************************************************************************)
(* poll: FileLike for Stdin / Stdout (stdio.rs:131-136, 163-168),          *)
(* Tty::poll (tty.rs:315-326) over TtyStdin::poll (tty.rs:180-201) and     *)
(* TtyStdout::poll (tty.rs:217-222).                                       *)
(***************************************************************************)
NoPoll == [called |-> FALSE, adapter |-> "FileLike", role |-> "Stdin",
           readable |-> FALSE, writable |-> FALSE,
           held |-> FALSE, input |-> FALSE]

InitPoll ==
    /\ pfill = [t \in Tasks |-> 0]
    /\ pres = [t \in Tasks |-> NoPoll]

\* the PollState a poll returns, with what the stream of the node looked
\* like at that moment: held, its BufReader has unconsumed data; input, the
\* console has a byte a fill would obtain
PollState(a, r, readable, writable, b, q) ==
    [called |-> TRUE, adapter |-> a, role |-> r,
     readable |-> readable, writable |-> writable,
     held |-> b # <<>>, input |-> q # <<>>]

\* FileLike::poll of Stdin and of Stdout: the same constant answer
FileLike_poll == [readable |-> TRUE, writable |-> TRUE]

\* TtyStdout::poll
TtyStdout_poll == [readable |-> FALSE, writable |-> TRUE]

\* task t polls the node of role r through adapter a
PollCall(t, a, r) ==
    /\ pc[t] \in {"idle", "done"}
    /\ op' = [op EXCEPT ![t] = "poll"]
    /\ adapter' = [adapter EXCEPT ![t] = a]
    /\ role' = [role EXCEPT ![t] = r]
    /\ blen' = [blen EXCEPT ![t] = 0]
    /\ inloop' = [inloop EXCEPT ![t] = FALSE]
    /\ direct' = [direct EXCEPT ![t] = FALSE]
    /\ part' = [part EXCEPT ![t] = <<>>]
    /\ ret' = [ret EXCEPT ![t] = 0]
    /\ err' = [err EXCEPT ![t] = "none"]
    /\ rdata' = [rdata EXCEPT ![t] = <<>>]
    /\ treads' = [treads EXCEPT ![t] = 0]
    /\ yields' = [yields EXCEPT ![t] = 0]
    /\ IF a = "FileLike"
       THEN /\ pc' = [pc EXCEPT ![t] = "done"]
            /\ pres' = [pres EXCEPT ![t] =
                          PollState(a, r, FileLike_poll.readable,
                                    FileLike_poll.writable, buf[StreamOf(a)],
                                    console)]
       ELSE IF r = "Stdout"
       THEN /\ pc' = [pc EXCEPT ![t] = "done"]
            /\ pres' = [pres EXCEPT ![t] =
                          PollState(a, r, TtyStdout_poll.readable,
                                    TtyStdout_poll.writable, buf[StreamOf(a)],
                                    console)]
       ELSE \* tty_stdin().poll()
            /\ pc' = [pc EXCEPT ![t] = "plock"]
            /\ pres' = [pres EXCEPT ![t] = NoPoll]
    /\ UNCHANGED <<console, arrived, out, buf, lock, pfill>>
    /\ UNCHANGED notStream

\* TtyStdin::poll answers when the buffer holds data
poll_readable(b) == b # <<>>

\* TtyStdin::poll: `self.inner.lock()`, then has_data_left, which is
\* fill_buf: with data in the buffer the answer is there, else the inner
\* reader is asked
PollLock(t) ==
    LET s == StreamOf(adapter[t]) IN
    /\ pc[t] = "plock"
    /\ lock[s] = "none"
    /\ IF buf[s] # <<>>
       THEN /\ pc' = [pc EXCEPT ![t] = "done"]
            /\ pres' = [pres EXCEPT ![t] =
                          PollState(adapter[t], role[t], poll_readable(buf[s]),
                                    FALSE, buf[s], console)]
            /\ UNCHANGED <<lock, pfill, part>>
       ELSE /\ lock' = [lock EXCEPT ![s] = t]
            /\ pc' = [pc EXCEPT ![t] = "praw"]
            /\ pfill' = [pfill EXCEPT ![t] = 1]
            /\ part' = [part EXCEPT ![t] = <<>>]
            /\ UNCHANGED pres
    /\ UNCHANGED <<console, arrived, out, buf, op, adapter, role, blen, inloop,
                   direct, ret, err, rdata, treads, yields>>
    /\ UNCHANGED notStream

\* one turn of the loop of TtyStdinRaw::read on the internal buffer, for
\* the fill of has_data_left (pfill = 1) or the `inner.fill_buf()` that
\* follows an empty one (pfill = 2); the guard is dropped at the return
PollRaw(t) ==
    LET s == StreamOf(adapter[t])
        r == console_read_bytes(console, BufCapacity - Len(part[t]))
        got == part[t] \o SubSeq(r.buf, 1, r.len)
    IN
    /\ pc[t] = "praw"
    /\ console' = SubSeq(console, r.len + 1, Len(console))
    /\ treads' = [treads EXCEPT ![t] = Sat(treads[t])]
    /\ IF r.len = 0 \/ Len(got) >= BufCapacity
       THEN /\ part' = [part EXCEPT ![t] = <<>>]
            /\ buf' = [buf EXCEPT ![s] = got]
            /\ IF pfill[t] = 1 /\ got = <<>>
               THEN \* has_data_left was false: `inner.fill_buf()`
                    /\ pfill' = [pfill EXCEPT ![t] = 2]
                    /\ UNCHANGED <<lock, pc, pres>>
               ELSE /\ pfill' = [pfill EXCEPT ![t] = 0]
                    /\ lock' = [lock EXCEPT ![s] = "none"]
                    /\ pc' = [pc EXCEPT ![t] = "done"]
                    /\ pres' = [pres EXCEPT ![t] =
                                  PollState(adapter[t], role[t],
                                            poll_readable(got), FALSE, got,
                                            console')]
       ELSE /\ part' = [part EXCEPT ![t] = got]
            /\ UNCHANGED <<buf, lock, pc, pfill, pres>>
    /\ UNCHANGED <<arrived, out, op, adapter, role, blen, inloop, direct, ret,
                   err, rdata, yields>>
    /\ UNCHANGED notStream

(***************************************************************************)
(* History of one run: what the console received and what the read calls   *)
(* returned.                                                               *)
(***************************************************************************)
InitHist ==
    /\ hist = <<>>
    /\ delivered = <<>>
    /\ attempts = [t \in Tasks |-> 0]

\* the read call of task t returns in this step
Returns(t) == pc[t] # "done" /\ pc'[t] = "done" /\ op[t] = "read"

\* the bytes a returning read call hands over join the delivered ones
Deliver(t) ==
    /\ delivered' = IF Returns(t) THEN delivered \o rdata'[t] ELSE delivered
    /\ UNCHANGED hist

Received(b) ==
    /\ hist' = Append(hist, b)
    /\ UNCHANGED <<delivered, attempts>>

\* a call of task t begins
NewCall(t) ==
    /\ attempts' = [attempts EXCEPT ![t] = 0]
    /\ UNCHANGED <<hist, delivered>>

\* task t executes one `self.inner.lock().read(buf)`
Attempt(t) == attempts' = [attempts EXCEPT ![t] = SatAttempts(attempts[t])]

\* concurrent readers: every task reads through either adapter's stdin node
NextIO ==
    \/ \E b \in SampleBytes : Arrive(b) /\ UNCHANGED histVars
    \/ \E t \in Tasks, a \in Adapters, n \in 0..MaxBufLen :
           Call(t, a, "Stdin", "read", n, <<>>) /\ UNCHANGED histVars
    \/ \E t \in Tasks : LockAndRead(t) /\ UNCHANGED histVars
    \/ \E t \in Tasks : RawRead(t) /\ UNCHANGED histVars
    \/ \E t \in Tasks : Resume(t) /\ UNCHANGED histVars

\* one task issuing every operation on every node of every adapter
NextSeq ==
    \/ \E b \in SampleBytes : Arrive(b) /\ UNCHANGED histVars
    \/ \E a \in Adapters, r \in Roles, n \in 0..MaxBufLen :
           Call("t1", a, r, "read", n, <<>>) /\ UNCHANGED histVars
    \/ \E a \in Adapters, r \in Roles, d \in SeqsUpTo(SampleBytes, MaxBufLen) :
           Call("t1", a, r, "write", Len(d), d) /\ UNCHANGED histVars
    \/ \E a \in Adapters, r \in Roles :
           PollCall("t1", a, r) /\ UNCHANGED histVars
    \/ LockAndRead("t1") /\ UNCHANGED histVars
    \/ RawRead("t1") /\ UNCHANGED histVars
    \/ Resume("t1") /\ UNCHANGED histVars
    \/ Write("t1") /\ UNCHANGED histVars
    \/ PollLock("t1") /\ UNCHANGED histVars
    \/ PollRaw("t1") /\ UNCHANGED histVars

\* readers and pollers of the one input stream of the VFS tty nodes, with
\* the history of the run: both tasks read, the second one polls as well
NextStream ==
    \/ \E b \in SampleBytes : Arrive(b) /\ Received(b)
    \/ \E t \in Tasks, n \in 0..MaxBufLen :
           Call(t, "Tty", "Stdin", "read", n, <<>>) /\ UNCHANGED histVars
    \/ PollCall("t2", "Tty", "Stdin") /\ UNCHANGED histVars
    \/ \E t \in Tasks : LockAndRead(t) /\ Deliver(t) /\ UNCHANGED attempts
    \/ \E t \in Tasks : RawRead(t) /\ Deliver(t) /\ UNCHANGED attempts
    \/ \E t \in Tasks : Resume(t) /\ UNCHANGED histVars
    \/ PollLock("t2") /\ UNCHANGED histVars
    \/ PollRaw("t2") /\ UNCHANGED histVars

\* one reader, its read attempts counted
CountedCall(a, n) == Call("t1", a, "Stdin", "read", n, <<>>) /\ NewCall("t1")
CountedLockAndRead ==
    LockAndRead("t1") /\ Attempt("t1") /\ UNCHANGED <<hist, delivered>>
CountedRawRead == RawRead("t1") /\ UNCHANGED histVars
CountedResume == Resume("t1") /\ UNCHANGED histVars

NextCount ==
    \/ \E b \in SampleBytes : Arrive(b) /\ UNCHANGED histVars
    \/ \E a \in Adapters, n \in 0..MaxBufLen : CountedCall(a, n)
    \/ CountedLockAndRead
    \/ CountedRawRead
    \/ CountedResume

\* the task runs while it can, and the scheduler resumes it after a yield
Scheduling ==
    /\ WF_vars(CountedLockAndRead)
    /\ WF_vars(CountedRawRead)
    /\ WF_vars(CountedResume)

(***************************************************************************)
(* Terminal control state and its ioctl dispatcher (tty.rs:19-106).        *)
(***************************************************************************)
\* ioctl command codes (linux_raw_sys::ioctl, imported at tty.rs:13-15)
TCGETS == 21505
TCSETS == 21506
TCSETSW == 21507
TCSETSF == 21508
TCGETA == 21509
TIOCGPGRP == 21519
TIOCSPGRP == 21520
TIOCGWINSZ == 21523
TIOCSWINSZ == 21524

KnownCmds == {TCGETS, TCGETA, TCSETS, TCSETSW, TCSETSF,
              TIOCGPGRP, TIOCSPGRP, TIOCGWINSZ, TIOCSWINSZ}
\* command codes the dispatcher has no arm for: 0, TCSETA, FIONREAD
UnknownCmds == {0, 21510, 21531}
\* a command as the node receives it (usize): the low 32 bits and what is above
NodeCmds == [hi : {0}, lo : KnownCmds \cup UnknownCmds]
              \cup [hi : {1}, lo : {TCGETS, TIOCSPGRP, 0}]

\* `cmd as u32` (tty.rs:205, tty.rs:226)
as_u32(cmd) == cmd.lo

\* TtyState::new (tty.rs:26-63)
TtyState_new ==
    [termios |->
        [c_iflag |-> 27906,  \* IMAXBEL | IUTF8 | IXON | IXANY | ICRNL | BRKINT
         c_oflag |-> 5,      \* OPOST | ONLCR
         c_cflag |-> 1271,   \* CREAD | HUPCL | 0x77
         c_lflag |-> 32859,  \* ISIG | ICANON | ECHO | ECHOE | ECHONL | IEXTEN
         c_line  |-> 0,
         c_cc    |-> <<3, 28, 127, 21, 4, 0, 1, 0, 17, 19, 26, 255, 18, 15, 23,
                       22, 255, 0, 0>>],
     pgid |-> 2,
     winsize |-> [ws_row |-> 24, ws_col |-> 140, ws_xpixel |-> 0, ws_ypixel |-> 0]]

\* values a caller stores in its argument buffer
SampleTermios ==
    {TtyState_new.termios,
     \* raw mode: ICANON, ECHO off; VMIN = 0, VTIME = 5
     [TtyState_new.termios EXCEPT !.c_lflag = 32849,
                                  !.c_cc = <<3, 28, 127, 21, 4, 5, 0, 0, 17, 19, 26,
                                             255, 18, 15, 23, 22, 255, 0, 0>>],
     \* other input / output / control flags and line discipline
     [TtyState_new.termios EXCEPT !.c_iflag = 256, !.c_oflag = 0,
                                  !.c_cflag = 191, !.c_line = 1]}
SamplePgid == {2, 7}
SampleWinsize ==
    {TtyState_new.winsize,
     [ws_row |-> 50, ws_col |-> 80, ws_xpixel |-> 640, ws_ypixel |-> 480]}
UserMem == [termios : SampleTermios, pgid : SamplePgid, winsize : SampleWinsize]

\* one possible result of a dispatch: the state and the argument buffer after
\* it, the result, and whether the argument pointer was dereferenced
Outcome(st, m, res, deref) ==
    [state |-> st, umem |-> m, res |-> res, deref |-> deref]

\* TCGETS | TCGETA: `(arg as *mut termios).write_volatile(self.termios)`.
\* A store through a null pointer is undefined: it traps, or it goes through
tcget(st, null, m) ==
    IF null
    THEN {Outcome(st, m, "fault", TRUE), Outcome(st, m, "Ok", TRUE)}
    ELSE {Outcome(st, [m EXCEPT !.termios = st.termios], "Ok", TRUE)}

\* a set-termios that copies the flags and leaves the control characters
tcset_flags_only(st, null, m) ==
    IF null
    THEN {Outcome(st, m, "panic", FALSE)}
    ELSE {Outcome([st EXCEPT !.termios = [m.termios EXCEPT !.c_cc = st.termios.c_cc]],
                  m, "Ok", TRUE)}

\* TCSETS | TCSETSW | TCSETSF: `self.termios = *(arg ..).as_mut().unwrap()`
tcset(st, null, m) ==
    IF null
    THEN {Outcome(st, m, "panic", FALSE)}
    ELSE {Outcome([st EXCEPT !.termios = m.termios], m, "Ok", TRUE)}

\* TIOCGPGRP
tiocgpgrp(st, null, m) ==
    IF null
    THEN {Outcome(st, m, "InvalidInput", FALSE)}
    ELSE {Outcome(st, [m EXCEPT !.pgid = st.pgid], "Ok", TRUE)}

\* TIOCSPGRP
tiocspgrp(st, null, m) ==
    IF null
    THEN {Outcome(st, m, "InvalidInput", FALSE)}
    ELSE {Outcome([st EXCEPT !.pgid = m.pgid], m, "Ok", TRUE)}

\* TIOCGWINSZ: `*(arg ..).as_mut().unwrap() = self.winsize`
tiocgwinsz(st, null, m) ==
    IF null
    THEN {Outcome(st, m, "panic", FALSE)}
    ELSE {Outcome(st, [m EXCEPT !.winsize = st.winsize], "Ok", TRUE)}

\* TIOCSWINSZ: `self.winsize = *(arg ..).as_mut().unwrap()`
tiocswinsz(st, null, m) ==
    IF null
    THEN {Outcome(st, m, "panic", FALSE)}
    ELSE {Outcome([st EXCEPT !.winsize = m.winsize], m, "Ok", TRUE)}

\* a dispatcher whose default arm falls into set-window-size
unsupported_falls_through(st, null, m) == tiocswinsz(st, null, m)

\* `_ => ax_err!(Unsupported)`
unsupported(st, null, m) == {Outcome(st, m, "Unsupported", FALSE)}

\* TtyState::ioctl: the results the dispatch of cmd (a u32) can have, the
\* argument pointer being null or pointing at the user's buffer m
TtyState_ioctl(st, cmd, null, m) ==
    CASE cmd \in {TCGETS, TCGETA} -> tcget(st, null, m)
      [] cmd \in {TCSETS, TCSETSW, TCSETSF} -> tcset(st, null, m)
      [] cmd = TIOCGPGRP -> tiocgpgrp(st, null, m)
      [] cmd = TIOCSPGRP -> tiocspgrp(st, null, m)
      [] cmd = TIOCGWINSZ -> tiocgwinsz(st, null, m)
      [] cmd = TIOCSWINSZ -> tiocswinsz(st, null, m)
      [] OTHER -> unsupported(st, null, m)

Fatal(res) == res \in {"panic", "fault"}

\* the field a command gets or sets
FieldOf(cmd) ==
    CASE cmd \in {TCGETS, TCGETA, TCSETS, TCSETSW, TCSETSF} -> "termios"
      [] cmd \in {TIOCGPGRP, TIOCSPGRP} -> "pgid"
      [] cmd \in {TIOCGWINSZ, TIOCSWINSZ} -> "winsize"
      [] OTHER -> "none"
IsSet(cmd) == cmd \in {TCSETS, TCSETSW, TCSETSF, TIOCSPGRP, TIOCSWINSZ}
IsGet(cmd) == cmd \in {TCGETS, TCGETA, TIOCGPGRP, TIOCGWINSZ}

NoIoctl == [target |-> "none", cmd |-> 0, null |-> FALSE, res |-> "none",
            deref |-> FALSE, changed |-> FALSE, wrote |-> FALSE, out |-> 0]

\* the content of the argument buffer's cell for cmd in the buffer m
ArgCell(cmd, m) == IF FieldOf(cmd) = "none" THEN 0 ELSE m[FieldOf(cmd)]

\* the record of an ioctl on `target` with outcome o, from state st and buffer m
IoctlRecord(target, cmd, null, st, m, o) ==
    [target |-> target, cmd |-> cmd, null |-> null, res |-> o.res,
     deref |-> o.deref, changed |-> o.state # st, wrote |-> o.umem # m,
     out |-> ArgCell(cmd, o.umem)]

InitTty ==
    /\ tstate = TtyState_new
    /\ umem = [termios |-> TtyState_new.termios, pgid |-> 2,
               winsize |-> TtyState_new.winsize]
    /\ last = NoIoctl
    /\ setLog = [f \in {"termios", "pgid", "winsize"} |->
                    [set |-> FALSE, v |-> TtyState_new[f]]]
    /\ nodeSet = [node |-> "none", field |-> "none", value |-> 0]
    /\ halted = FALSE

\* the user fills its argument buffer
UserStore(m) ==
    /\ ~halted
    /\ m # umem
    /\ umem' = m
    /\ UNCHANGED <<tstate, last, setLog, nodeSet, halted>>
    /\ UNCHANGED notTty

\* TtyStdin::ioctl (tty.rs:204-206) on one TtyStdin object kept by its owner:
\* `self.state.lock().ioctl(cmd as u32, arg)`
TtyStdin_ioctl(cmd, null) ==
    /\ ~halted
    /\ \E o \in TtyState_ioctl(tstate, as_u32(cmd), null, umem) :
          /\ tstate' = o.state
          /\ umem' = o.umem
          /\ halted' = Fatal(o.res)
          /\ last' = IoctlRecord("object", as_u32(cmd), null, tstate, umem, o)
          /\ setLog' = IF IsSet(as_u32(cmd)) /\ o.res = "Ok"
                       THEN [setLog EXCEPT ![FieldOf(as_u32(cmd))] =
                                  [set |-> TRUE, v |-> ArgCell(as_u32(cmd), umem)]]
                       ELSE setLog
    /\ UNCHANGED nodeSet
    /\ UNCHANGED notTty

(***************************************************************************)
(* Device nodes (dev/mod.rs:13-20) and Tty::ioctl (tty.rs:328-339).        *)
(***************************************************************************)
Nodes == {"stdin", "stdout", "stderr", "tty"}
tty_type(node) == IF node = "stdin" THEN "Stdin" ELSE "Stdout"

\* tty_stdin() / tty_stdout() (tty.rs:234-248): the object a node call works
\* on, built at each call with `state: Mutex::new(TtyState::new())`
tty_object_state(node) == TtyState_new

\* Tty::ioctl: builds the object, dispatches on its state, drops the object
Tty_ioctl(node, cmd, null) ==
    /\ ~halted
    /\ \E o \in TtyState_ioctl(tty_object_state(node), as_u32(cmd), null, umem) :
          /\ umem' = o.umem
          /\ halted' = Fatal(o.res)
          /\ last' = IoctlRecord(node, as_u32(cmd), null,
                                  tty_object_state(node), umem, o)
          /\ nodeSet' = IF IsSet(as_u32(cmd)) /\ o.res = "Ok"
                        THEN [node |-> node, field |-> FieldOf(as_u32(cmd)),
                              value |-> ArgCell(as_u32(cmd), umem)]
                        ELSE nodeSet
    /\ UNCHANGED <<tstate, setLog>>
    /\ UNCHANGED notTty

NextTty ==
    \/ \E m \in UserMem : UserStore(m)
    \/ \E c \in NodeCmds, null \in BOOLEAN : TtyStdin_ioctl(c, null)

NextNode ==
    \/ \E m \in UserMem : UserStore(m)
    \/ \E n \in Nodes, c \in NodeCmds, null \in BOOLEAN : Tty_ioctl(n, c, null)

(***************************************************************************)
(* PRNG service (random.rs:6-56).                                          *)
(***************************************************************************)
\* const RAND_MAX: u64 = 2_147_483_647
RAND_MAX == 2147483647
\* the multiplier of the recurrence
Multiplier == 48271

\* A u32 is held as [hi, lo] with value hi * 2^31 + lo, hi in 0..1 and
\* lo in 0..2^31-1, so that no number of the model exceeds 2^31 - 1.
U32(hi, lo) == [hi |-> hi, lo |-> lo]
Zero == U32(0, 0)

\* values of `time::current_ticks() as u32`:
\* 0, 1, 12345, 2^31 - 2, 2^31 - 1, 2^31, 2^32 - 2, 2^32 - 1
SampleTicks == {U32(0, 0), U32(0, 1), U32(0, 12345), U32(0, 2147483646),
                U32(0, 2147483647), U32(1, 0), U32(1, 2147483646),
                U32(1, 2147483647)}

\* u mod RAND_MAX, by 2^31 = 1 (mod RAND_MAX)
ModRandMax(u) ==
    LET l == IF u.lo = RAND_MAX THEN 0 ELSE u.lo
    IN  IF l + u.hi = RAND_MAX THEN 0 ELSE l + u.hi

\* (a * 48271) mod RAND_MAX for a < RAND_MAX, the 64-bit product being
\* split as RAND_MAX = 48271 * 44488 + 3399 to stay below 2^31
MulMod(a) ==
    LET q == RAND_MAX \div Multiplier
        r == RAND_MAX % Multiplier
        t == Multiplier * (a % q) - r * (a \div q)
    IN  IF t < 0 THEN t + RAND_MAX ELSE t

\* one round: `*seed = ((u64::from(*seed) * 48271) % RAND_MAX) as u32`
round(u) == U32(0, MulMod(ModRandMax(u)))

\* a random() that puts the first round in the low 32 bits
random_first_round_low(sd, tick) ==
    LET s0 == IF sd = Zero THEN tick ELSE sd
        r1 == round(s0)
        r2 == round(r1)
        r3 == round(r2)
        r4 == round(r3)
    IN  [seed |-> r4, ret |-> <<r4.lo, r3.lo, r2.lo, r1.lo>>, ticked |-> sd = Zero]

\* random(): the seed is taken from the time source when it is 0, then four
\* rounds; `ret = (ret << 32) | seed` puts the first round in the top 32 bits.
\* ret is the u128 as its four 32-bit words, the most significant first.
random(sd, tick) ==
    LET s0 == IF sd = Zero THEN tick ELSE sd
        r1 == round(s0)
        r2 == round(r1)
        r3 == round(r2)
        r4 == round(r3)
    IN  [seed |-> r4, ret |-> <<r1.lo, r2.lo, r3.lo, r4.lo>>, ticked |-> sd = Zero]

Pow256(k) == CASE k = 0 -> 1 [] k = 1 -> 256 [] k = 2 -> 65536 [] k = 3 -> 16777216

\* the bytes in the opposite order, the most significant first
to_be_bytes(x) ==
    [i \in 1..16 |-> (x[1 + ((i - 1) \div 4)] \div Pow256(3 - ((i - 1) % 4))) % 256]

\* u128::to_le_bytes: the 16 bytes, the least significant first
to_le_bytes(x) ==
    [i \in 1..16 |-> (x[4 - ((i - 1) \div 4)] \div Pow256((i - 1) % 4)) % 256]

\* `chunk.len().min(16)` for the chunk that starts after `filled` bytes
copy_len(n, filled) == Min(Min(16, n - filled), 16)

\* number of chunks of `user_buf.chunks_mut(16)` still to fill
ChunksLeft(n, filled) == (n - filled + 15) \div 16

\* UserPtr::get_as_mut_slice (crate::ptr): the validation layer hands the
\* handler a writable slice of buflen bytes
get_as_mut_slice(n) == [i \in 1..n |-> 0]

\* longest buffer sys_getrandom is called with
MaxGetrandom == 34
\* random() calls in one run
MaxDraws == 4

InitRand ==
    /\ seed = Zero
    /\ draws = 0
    /\ rpc = "idle"
    /\ rlen = 0
    /\ rflags = 0
    /\ rbuf = <<>>
    /\ rlog = <<>>
    /\ rret = 0
    /\ given = Zero
    /\ gen = [g \in {"A", "B"} |-> Zero]
    /\ outs = [g \in {"A", "B"} |-> <<>>]
    /\ ins = [g \in {"A", "B"} |-> <<>>]

\* sys_getrandom(buf, buflen, flags) up to the loop over the chunks
sys_getrandom(n, flags) ==
    /\ rpc \in {"idle", "done"}
    /\ draws + ChunksLeft(n, 0) <= MaxDraws
    /\ rlen' = n
    /\ rflags' = flags
    /\ rlog' = <<>>
    /\ rbuf' = <<>>
    /\ IF n = 0
       THEN /\ rpc' = "done"
            /\ rret' = 0
       ELSE /\ Len(get_as_mut_slice(n)) = n
            /\ rpc' = "fill"
            /\ rret' = 0
    /\ UNCHANGED <<seed, draws, given, gen, outs, ins>>
    /\ UNCHANGED notRand

\* one turn of `for chunk in user_buf.chunks_mut(16)`, and the return after
\* the last one
fill_chunk(tick) ==
    LET r == random(seed, tick)
        k == copy_len(rlen, Len(rbuf))
        filled == rbuf \o SubSeq(to_le_bytes(r.ret), 1, k)
    IN
    /\ rpc = "fill"
    /\ seed' = r.seed
    /\ draws' = draws + 1
    /\ rlog' = Append(rlog, r.ret)
    /\ rbuf' = filled
    /\ IF ChunksLeft(rlen, Len(filled)) = 0
       THEN rpc' = "done" /\ rret' = rlen
       ELSE UNCHANGED <<rpc, rret>>
    /\ UNCHANGED <<rlen, rflags, given, gen, outs, ins>>
    /\ UNCHANGED notRand

\* another caller of random() between two chunks
other_random(tick) ==
    /\ draws + (IF rpc = "fill" THEN ChunksLeft(rlen, Len(rbuf)) ELSE 0) < MaxDraws
    /\ seed' = random(seed, tick).seed
    /\ draws' = draws + 1
    /\ UNCHANGED <<rpc, rlen, rflags, rbuf, rlog, rret, given, gen, outs, ins>>
    /\ UNCHANGED notRand

\* the values the time source can return at a call of random()
TicksFor(sd) == IF sd = Zero THEN SampleTicks ELSE {Zero}

NextRand ==
    \/ \E n \in 0..MaxGetrandom, flags \in {0, 1} : sys_getrandom(n, flags)
    \/ \E tick \in TicksFor(seed) : fill_chunk(tick)
    \/ \E tick \in TicksFor(seed) : other_random(tick)

\* two fresh instances are given the same seed: the time source returns it
\* at the first call of each; what it returns later is free
GiveSeed(s) ==
    /\ given = Zero
    /\ given' = s
    /\ UNCHANGED <<seed, draws, rpc, rlen, rflags, rbuf, rlog, rret, gen, outs,
                   ins>>
    /\ UNCHANGED notRand

twin_random(g, tick) ==
    LET ticks == IF outs[g] = <<>> THEN given ELSE tick
        r == random(gen[g], ticks)
    IN
    /\ given # Zero
    /\ Len(outs[g]) < MaxDraws
    /\ gen' = [gen EXCEPT ![g] = r.seed]
    /\ outs' = [outs EXCEPT ![g] = Append(outs[g], r.ret)]
    /\ ins' = [ins EXCEPT ![g] = Append(ins[g], IF r.ticked THEN ticks ELSE gen[g])]
    /\ UNCHANGED <<seed, draws, rpc, rlen, rflags, rbuf, rlog, rret, given>>
    /\ UNCHANGED notRand

NextTwin ==
    \/ \E s \in SampleTicks \ {Zero} : GiveSeed(s)
    \/ \E g \in {"A", "B"}, tick \in SampleTicks :
          (tick \in TicksFor(gen[g]) /\ twin_random(g, tick))

\* one instance on its own, seeded by the clock at its first call and again
\* whenever its seed is 0
NextOne ==
    \/ \E s \in SampleTicks \ {Zero} : GiveSeed(s)
    \/ \E tick \in SampleTicks :
          (tick \in TicksFor(gen["A"]) /\ twin_random("A", tick))

(***************************************************************************)
(* /proc/self/fd (selfs.rs:40-117).                                        *)
(***************************************************************************)
\* longest name looked up
MaxNameLen == 3
\* largest readlink buffer
MaxLinkBuf == 12

Digits == <<"0", "1", "2", "3">>
NameChars == {"0", "1", "2", "3", "+", "-", "a"}
Names == SeqsUpTo(NameChars, MaxNameLen)

IsDigit(c) == \E d \in 1..Len(Digits) : Digits[d] = c
DigitVal(c) == (CHOOSE d \in 1..Len(Digits) : Digits[d] = c) - 1

RECURSIVE DecimalValue(_)
DecimalValue(ds) ==
    IF ds = <<>> THEN 0
    ELSE 10 * DecimalValue(SubSeq(ds, 1, Len(ds) - 1)) + DigitVal(ds[Len(ds)])

\* str::parse::<usize>: an optional '+', then one or more decimal digits
\* (a '-' is no sign for an unsigned type); no name of the model is long
\* enough to overflow a usize
parse_usize(name) ==
    LET digits == IF name # <<>> /\ name[1] = "+" THEN Tail(name) ELSE name
    IN  IF digits # <<>> /\ \A i \in 1..Len(digits) : IsDigit(digits[i])
        THEN [ok |-> TRUE, val |-> DecimalValue(digits)]
        ELSE [ok |-> FALSE, val |-> 0]

\* SelfFdDir::lookup
lookup(name) ==
    LET p == parse_usize(name)
    IN  IF p.ok /\ p.val <= 2
        THEN [res |-> "Ok", fd |-> p.val]
        ELSE [res |-> "NotFound", fd |-> -1]

\* the target of SelfFdEntry::readlink
fd_path(fd) ==
    CASE fd = 0 -> <<"/", "d", "e", "v", "/", "s", "t", "d", "i", "n">>
      [] fd = 1 -> <<"/", "d", "e", "v", "/", "s", "t", "d", "o", "u", "t">>
      [] fd = 2 -> <<"/", "d", "e", "v", "/", "s", "t", "d", "e", "r", "r">>
      [] OTHER -> <<"/", "d", "e", "v", "/", "n", "u", "l", "l">>

\* the readlink that clears the rest of the buffer
readlink_clearing(fd, b) ==
    LET path_bytes == fd_path(fd)
        n == Min(Len(b), Len(path_bytes))
    IN  [len |-> n,
         buf |-> [i \in 1..Len(b) |-> IF i <= n THEN path_bytes[i] ELSE "0"]]

(***************************************************************************)
(* The normaliser on its own: console_read_bytes and console_write_bytes   *)
(* applied to one slice (stdio.rs:12-27, tty.rs:114-129).                  *)
(***************************************************************************)
\* bytes a slice or the console may hold: '\r', 'a' and '\n'
ConsoleBytes == SampleBytes \cup {NL}

NoCio == [held |-> <<>>, slice |-> 0, len |-> 0, buf |-> <<>>, called |-> FALSE]

InitCio == cio = [rd |-> NoCio, wr |-> NoCio]

\* console_read_bytes on a slice of m bytes, the console holding q
ConsoleRead(q, m) ==
    LET r == console_read_bytes(q, m) IN
    /\ cio' = [cio EXCEPT !.rd = [held |-> q, slice |-> m, len |-> r.len,
                                  buf |-> r.buf, called |-> TRUE]]
    /\ UNCHANGED notCio

\* console_write_bytes on the slice b
ConsoleWrite(b) ==
    LET w == console_write_bytes(b) IN
    /\ cio' = [cio EXCEPT !.wr = [held |-> b, slice |-> Len(b), len |-> w.len,
                                  buf |-> w.written, called |-> TRUE]]
    /\ UNCHANGED notCio

NextConsole ==
    \/ \E q \in SeqsUpTo(ConsoleBytes, MaxInput), m \in 0..(MaxBufLen + 1) :
           ConsoleRead(q, m)
    \/ \E b \in SeqsUpTo(ConsoleBytes, MaxBufLen) : ConsoleWrite(b)

(***************************************************************************)
(* /proc/self/exe (selfs.rs:10-38) and the listing of /proc/self/fd        *)
(* (selfs.rs:52-69).                                                       *)
(***************************************************************************)
\* what resolve_symlink_path(&exe_path) can be: "", "/init", "/bin/busybox"
SampleTargets ==
    { <<>>,
      <<"/", "i", "n", "i", "t">>,
      <<"/", "b", "i", "n", "/", "b", "u", "s", "y", "b", "o", "x">> }

\* the copy of SelfExe::readlink into the buffer b: the count and the
\* buffer after
SelfExe_readlink(target_bytes, b) ==
    LET n == Min(Len(b), Len(target_bytes))
    IN  [len |-> n,
         buf |-> [i \in 1..Len(b) |-> IF i <= n THEN target_bytes[i] ELSE b[i]]]

NoExeOp == [called |-> FALSE, target |-> <<>>, cap |-> 0, len |-> 0, buf |-> <<>>]

\* readlink on /proc/self/exe, the executable path resolving to target and
\* the caller's buffer of c bytes holding "?" before
ExeReadlink(target, c) ==
    LET r == SelfExe_readlink(target, [i \in 1..c |-> "?"]) IN
    /\ elast' = [called |-> TRUE, target |-> target, cap |-> c,
                 len |-> r.len, buf |-> r.buf]
    /\ UNCHANGED <<dlast, dnext, dcap, dlist, ddone>>
    /\ UNCHANGED notSelf

\* largest start index read_dir is called with
MaxStart == 4
\* largest capacity of the entry buffer
MaxEnts == 4

\* `let sample_fds = [0, 1, 2]`
sample_fds == <<0, 1, 2>>

\* format!("{}", fd) for an fd of sample_fds
fd_name(fd) == <<Digits[fd + 1]>>

\* VfsDirEntry::new(&fd_name, VfsNodeType::SymLink)
VfsDirEntry(name, type) == [name |-> name, type |-> type]

\* the loop `for (idx, &fd) in sample_fds.iter().enumerate()` from the
\* k-th element on, ents being vfs_ents[..count]
RECURSIVE read_dir_loop(_, _, _, _)
read_dir_loop(k, start_idx, cap, ents) ==
    IF k > Len(sample_fds) THEN ents
    ELSE IF (k - 1) >= start_idx /\ Len(ents) < cap
         THEN read_dir_loop(k + 1, start_idx, cap,
                            Append(ents, VfsDirEntry(fd_name(sample_fds[k]),
                                                     "SymLink")))
         ELSE read_dir_loop(k + 1, start_idx, cap, ents)

\* the listing that takes no notice of start_idx
read_dir_from_zero(start_idx, cap) ==
    LET ents == read_dir_loop(1, 0, cap, <<>>)
    IN  [count |-> Len(ents), ents |-> ents]

\* SelfFdDir::read_dir(start_idx, vfs_ents), vfs_ents of cap entries
read_dir(start_idx, cap) ==
    LET ents == read_dir_loop(1, start_idx, cap, <<>>)
    IN  [count |-> Len(ents), ents |-> ents]

NoDirOp == [called |-> FALSE, start |-> 0, cap |-> 0, count |-> 0, ents |-> <<>>]

InitSelf ==
    /\ elast = NoExeOp
    /\ dlast = NoDirOp
    /\ dnext = 0
    /\ dcap = 0
    /\ dlist = <<>>
    /\ ddone = FALSE

\* one read_dir with any start index and capacity
ReadDir(s, c) ==
    LET r == read_dir(s, c) IN
    /\ dlast' = [called |-> TRUE, start |-> s, cap |-> c,
                 count |-> r.count, ents |-> r.ents]
    /\ UNCHANGED <<elast, dnext, dcap, dlist, ddone>>
    /\ UNCHANGED notSelf

\* a caller starts to list the directory with a buffer of c entries
ListStart(c) ==
    /\ dcap' = c
    /\ dnext' = 0
    /\ dlist' = <<>>
    /\ ddone' = FALSE
    /\ UNCHANGED <<elast, dlast>>
    /\ UNCHANGED notSelf

\* its next read_dir, the start index advanced by the count returned
ListNext ==
    LET r == read_dir(dnext, dcap) IN
    /\ dcap > 0
    /\ ~ddone
    /\ dnext' = dnext + r.count
    /\ dlist' = dlist \o [k \in 1..r.count |-> r.ents[k].name]
    /\ ddone' = (r.count = 0)
    /\ UNCHANGED <<elast, dlast, dcap>>
    /\ UNCHANGED notSelf

NextDir ==
    \/ \E s \in 0..MaxStart, c \in 0..MaxEnts : ReadDir(s, c)
    \/ \E c \in 1..MaxEnts : ListStart(c)
    \/ ListNext

\* SelfFdEntry::readlink into the buffer b: the count and the buffer after
readlink(fd, b) ==
    LET path_bytes == fd_path(fd)
        n == Min(Len(b), Len(path_bytes))
    IN  [len |-> n,
         buf |-> [i \in 1..Len(b) |-> IF i <= n THEN path_bytes[i] ELSE b[i]]]

NoProcOp == [op |-> "none", name |-> <<>>, res |-> "none", fd |-> -1,
             cap |-> 0, len |-> 0, buf |-> <<>>]

InitProc ==
    /\ entry = -1
    /\ plast = NoProcOp

Lookup(name) ==
    LET r == lookup(name) IN
    /\ plast' = [NoProcOp EXCEPT !.op = "lookup", !.name = name,
                                 !.res = r.res, !.fd = r.fd]
    /\ entry' = r.fd
    /\ UNCHANGED notProc

\* readlink on the entry the last successful lookup returned, the caller's
\* buffer of c bytes holding "?" before
Readlink(c) ==
    LET r == readlink(entry, [i \in 1..c |-> "?"]) IN
    /\ entry >= 0
    /\ plast' = [plast EXCEPT !.op = "readlink", !.res = "Ok", !.fd = entry,
                              !.cap = c, !.len = r.len, !.buf = r.buf]
    /\ UNCHANGED entry
    /\ UNCHANGED notProc

NextProc ==
    \/ \E name \in Names : Lookup(name)
    \/ \E c \in 0..MaxLinkBuf : Readlink(c)

\* the symlinks under /proc/self: the entries of the fixed listing are
\* looked up and read, and /proc/self/exe is read
NextLink ==
    \/ \E k \in 1..Len(sample_fds) : Lookup(fd_name(sample_fds[k]))
    \/ \E c \in 0..MaxLinkBuf : Readlink(c)
    \/ \E target \in SampleTargets, c \in 0..MaxLinkBuf : ExeReadlink(target, c)

(***************************************************************************)
(* Specifications.                                                         *)
(***************************************************************************)
Init ==
    /\ InitIO /\ InitTty /\ InitRand /\ InitProc
    /\ InitPoll /\ InitHist /\ InitCio /\ InitSelf

\* concurrent readers of the console
Spec == Init /\ [][NextIO]_vars
\* one task, every operation of every adapter
SpecSeq == Init /\ [][NextSeq]_vars
\* ioctls on one terminal object
SpecTty == Init /\ [][NextTty]_vars
\* ioctls through the device nodes
SpecNode == Init /\ [][NextNode]_vars
\* getrandom calls and other draws
SpecRand == Init /\ [][NextRand]_vars
\* two generator instances given one seed
SpecTwin == Init /\ [][NextTwin]_vars
\* the calls of one generator instance
SpecOne == Init /\ [][NextOne]_vars
\* lookups and readlinks in /proc/self/fd
SpecProc == Init /\ [][NextProc]_vars
\* the normaliser applied to single slices
SpecConsole == Init /\ [][NextConsole]_vars
\* readers and pollers of one stream
SpecStream == Init /\ [][NextStream]_vars
\* readlink on the symlinks under /proc/self
SpecLink == Init /\ [][NextLink]_vars
\* one reader, its attempts counted
SpecCount == Init /\ [][NextCount]_vars
\* the same reader under a scheduler that resumes it
SpecLive == Init /\ [][NextCount]_vars /\ Scheduling
\* read_dir calls and listings of /proc/self/fd
SpecDir == Init /\ [][NextDir]_vars

(***************************************************************************)
(* Properties.                                                             *)
(***************************************************************************)
ReadBlockedReturned(t) ==
    pc[t] = "done" /\ op[t] = "read" /\ role[t] = "Stdin"

\* C1: a read_blocked call on a non-empty buffer, through either stdin
\* adapter, returns only a count between 1 and the length of the buffer,
\* with that many bytes, and no error
C1_NeverReturnsZero ==
    \A t \in Tasks :
        (ReadBlockedReturned(t) /\ blen[t] > 0) =>
            /\ err[t] = "none"
            /\ ret[t] >= 1
            /\ ret[t] <= blen[t]
            /\ Len(rdata[t]) = ret[t]
            /\ arrived >= ret[t]

\* a call through each adapter has returned, one of them after yielding
C1_Witness ==
    \E t, u \in Tasks :
        /\ ReadBlockedReturned(t) /\ ReadBlockedReturned(u)
        /\ adapter[t] = "FileLike" /\ adapter[u] = "Tty"
        /\ blen[t] > 0 /\ blen[u] > 0
        /\ yields[t] > 0
        /\ ret[t] >= 1 /\ ret[u] >= 1

C3_WrongDirectionPermissionDenied ==
    \A t \in Tasks :
        (pc[t] = "done" /\ WrongDirection(op[t], role[t])) =>
            /\ err[t] = Tty_denied
            /\ treads[t] = 0

\* C4: on one terminal object, a successful get-termios (by either code) or
\* get-window-size hands out the value last set on it (by any set code)
C4_SetGetRoundTrip ==
    (/\ last.target = "object"
     /\ last.cmd \in {TCGETS, TCGETA, TIOCGWINSZ}
     /\ ~last.null /\ last.res = "Ok"
     /\ setLog[FieldOf(last.cmd)].set)
        => /\ last.out = setLog[FieldOf(last.cmd)].v
           /\ tstate[FieldOf(last.cmd)] = setLog[FieldOf(last.cmd)].v

\* a get-termios by TCGETA returning a termios that was set and is not the default
C4_Witness ==
    /\ last.target = "object" /\ last.cmd = TCGETA /\ last.res = "Ok"
    /\ setLog["termios"].set /\ setLog["winsize"].set
    /\ last.out = setLog["termios"].v
    /\ last.out # TtyState_new.termios
    /\ tstate.winsize # TtyState_new.winsize

\* C5: a get ioctl through a device node returns what the last successful
\* set ioctl through that node stored, and not the default
C5_NodeKeepsWhatWasSet ==
    (/\ last.target \in Nodes
     /\ IsGet(last.cmd) /\ ~last.null /\ last.res = "Ok"
     /\ nodeSet.node = last.target
     /\ nodeSet.field = FieldOf(last.cmd))
        => last.out = nodeSet.value

\* C6: a command code the dispatcher does not know fails with Unsupported,
\* changes no field of the state, and the argument is neither read nor written
C6_UnknownCommandUnsupported ==
    (last.target = "object" /\ last.cmd \notin KnownCmds) =>
        /\ last.res = "Unsupported"
        /\ ~last.changed
        /\ ~last.wrote
        /\ ~last.deref
        /\ ~halted

\* an unknown command on an object whose state is no longer the default
C6_Witness ==
    /\ last.target = "object" /\ last.cmd = 21510 /\ ~last.null
    /\ last.res = "Unsupported"
    /\ tstate.termios # TtyState_new.termios
    /\ umem.winsize # tstate.winsize

\* C7: a known command with a null argument fails with InvalidInput for the
\* caller, changes nothing and does not bring the kernel down
C7_NullArgumentInvalidInput ==
    (last.target = "object" /\ last.cmd \in KnownCmds /\ last.null) =>
        /\ last.res = "InvalidInput"
        /\ ~last.changed
        /\ ~halted

\* byte k (0 the least significant) of the 128-bit value whose 32-bit words,
\* the most significant first, are x
ByteOfU128(x, k) == (x[4 - (k \div 4)] \div Pow256(k % 4)) % 256

\* C8: getrandom of n bytes returns n; for n = 0 it draws and writes
\* nothing; for n > 0 it draws ceil(n / 16) times and byte i of the buffer
\* is byte (i mod 16) of the (i div 16)-th draw, whatever the flags
C8_GetrandomFillsFromDraws ==
    rpc = "done" =>
        /\ rret = rlen
        /\ rlen = 0 => (rlog = <<>> /\ rbuf = <<>>)
        /\ rlen > 0 =>
              /\ Len(rlog) = (rlen + 15) \div 16
              /\ Len(rbuf) = rlen
              /\ \A i \in 0..(rlen - 1) :
                    rbuf[i + 1] = ByteOfU128(rlog[(i \div 16) + 1], i % 16)

\* a call for 34 bytes with flags set has returned after three draws
C8_Witness ==
    /\ rpc = "done" /\ rlen = 34 /\ rflags = 1 /\ rret = 34
    /\ Len(rlog) = 3
    /\ rlog[1] # rlog[2]
    /\ rbuf[1] # rbuf[4]

\* C9: two fresh generator instances given the same seed return the same
\* values call after call, whatever the time source returns
C9_SameSeedSameSequence ==
    \A k \in 1..Min(Len(outs["A"]), Len(outs["B"])) : outs["A"][k] = outs["B"][k]

\* C10: a lookup in /proc/self/fd succeeds for the names "0", "1", "2" and
\* for no other name, a failure being NotFound; the entry found links to
\* /dev/stdin, /dev/stdout, /dev/stderr
C10_LookupOnlyCanonicalNames ==
    /\ plast.op = "lookup" =>
          /\ plast.res = "Ok" <=> plast.name \in {<<"0">>, <<"1">>, <<"2">>}
          /\ plast.res \in {"Ok", "NotFound"}
    /\ (plast.op = "readlink" /\ plast.cap = MaxLinkBuf) =>
          SubSeq(plast.buf, 1, plast.len) =
              (CASE plast.fd = 0 -> <<"/", "d", "e", "v", "/", "s", "t", "d", "i", "n">>
                 [] plast.fd = 1 -> <<"/", "d", "e", "v", "/", "s", "t", "d", "o", "u", "t">>
                 [] plast.fd = 2 -> <<"/", "d", "e", "v", "/", "s", "t", "d", "e", "r", "r">>)


\* C11: console_read_bytes reports the number of bytes the transport handed
\* over and gives the reader each of them with carriage return turned into
\* newline and every other byte as it was, the rest of the slice not being
\* translated; console_write_bytes hands every byte, carriage return
\* included, to the transport as it is and reports the full length
C11_ReadTranslatesWritePreserves ==
    /\ cio.rd.called =>
          LET n == Min(cio.rd.slice, Len(cio.rd.held)) IN
          /\ cio.rd.len = n
          /\ Len(cio.rd.buf) = cio.rd.slice
          /\ \A i \in 1..cio.rd.slice :
                IF i <= n
                THEN cio.rd.buf[i] = (IF cio.rd.held[i] = CR THEN NL
                                      ELSE cio.rd.held[i])
                ELSE cio.rd.buf[i] = 0
    /\ cio.wr.called =>
          /\ cio.wr.buf = cio.wr.held
          /\ cio.wr.len = Len(cio.wr.held)

\* a short read that met a carriage return, and a write of a carriage return
C11_Witness ==
    /\ cio.rd.called /\ cio.rd.len = 2 /\ cio.rd.slice = 3
    /\ cio.rd.held = <<CR, 97>> /\ cio.rd.buf[1] = NL /\ cio.rd.buf[2] = 97
    /\ cio.wr.called /\ cio.wr.held = <<97, CR>> /\ cio.wr.buf = <<97, CR>>

\* C12: a poll of a stdin-role node, through either adapter, reports
\* readable exactly when the buffered reader of the node holds unconsumed
\* data or a fill at poll time obtains a byte, so not with an empty buffer
\* and no console input; a poll of an output-role node reports writable
C12_PollReadableIffData ==
    \A t \in Tasks :
        pres[t].called =>
            /\ pres[t].role = "Stdin" =>
                  (pres[t].readable <=> (pres[t].held \/ pres[t].input))
            /\ pres[t].role = "Stdout" => pres[t].writable

\* C13: at most one task at a time is inside a read of the console
\* transport, whichever nodes the tasks read through
C13_OneReaderInTransport ==
    \A t, u \in Tasks :
        (pc[t] \in {"raw", "praw"} /\ pc[u] \in {"raw", "praw"}) => t = u

\* C14: readlink on /proc/self/exe and on an entry of /proc/self/fd
\* succeeds for every buffer capacity, 0 included: with capacity c and a
\* target of t bytes it returns min(c, t), the buffer then starts with the
\* first min(c, t) bytes of the target and its rest is as it was
C14_ReadlinkTruncates ==
    /\ plast.op = "readlink" =>
          LET target == fd_path(plast.fd)
              n == Min(plast.cap, Len(target))
          IN  /\ plast.res = "Ok"
              /\ plast.len = n
              /\ Len(plast.buf) = plast.cap
              /\ \A i \in 1..plast.cap :
                    plast.buf[i] = IF i <= n THEN target[i] ELSE "?"
    /\ elast.called =>
          LET n == Min(elast.cap, Len(elast.target))
          IN  /\ elast.len = n
              /\ Len(elast.buf) = elast.cap
              /\ \A i \in 1..elast.cap :
                    elast.buf[i] = IF i <= n THEN elast.target[i] ELSE "?"

\* an entry read into a buffer longer than its target, the executable
\* path read into a buffer of no bytes
C14_Witness ==
    /\ plast.op = "readlink" /\ plast.fd = 0 /\ plast.cap = 12 /\ plast.len = 10
    /\ elast.called /\ elast.cap = 0 /\ elast.len = 0 /\ Len(elast.target) = 12

\* a read_blocked call on a non-empty buffer under way or returned, its
\* counts of attempts and yields not saturated
CountedRead(t) ==
    /\ op[t] = "read" /\ role[t] = "Stdin" /\ blen[t] > 0
    /\ pc[t] \in {"lock", "raw", "yield", "done"}
    /\ attempts[t] <= MaxCount + 1

\* C15: within one read_blocked call on a non-empty buffer there is a
\* yield between any two read attempts: a call in or after its N-th
\* attempt has yielded N-1 times
C15_YieldBetweenAnyTwoAttempts ==
    \A t \in Tasks :
        (CountedRead(t) /\ pc[t] \in {"raw", "done"} /\ attempts[t] >= 1) =>
            yields[t] = attempts[t] - 1

\* C15, as amended: the first attempt and the first attempt of the loop
\* follow each other without a yield, and every attempt of the loop that
\* returns zero bytes is followed by a yield before the next: a call in or
\* after its N-th attempt has yielded N-2 times for N >= 2 and not at all
\* for N = 1
C15_YieldAfterEachLoopAttempt ==
    \A t \in Tasks :
        CountedRead(t) =>
            /\ pc[t] \in {"raw", "done"} =>
                  /\ attempts[t] >= 1
                  /\ yields[t] = (IF attempts[t] = 1 THEN 0 ELSE attempts[t] - 2)
            /\ pc[t] = "yield" =>
                  inloop[t] /\ attempts[t] >= 2 /\ yields[t] = attempts[t] - 1
            /\ pc[t] = "lock" =>
                  \/ attempts[t] = 0 /\ ~inloop[t] /\ yields[t] = 0
                  \/ attempts[t] = 1 /\ inloop[t] /\ yields[t] = 0
                  \/ attempts[t] >= 2 /\ inloop[t] /\ yields[t] = attempts[t] - 1

\* a call has returned from its third attempt
C15_Witness ==
    \E t \in Tasks :
        /\ CountedRead(t) /\ pc[t] = "done"
        /\ attempts[t] = 3 /\ yields[t] = 1 /\ ret[t] >= 1

\* the call of the one reader waits for a byte
Waiting == CountedRead("t1") /\ pc["t1"] \in {"lock", "raw", "yield"}

\* a byte is there for it: in the console, in the BufReader of its stream
\* or pulled by the read under way
Available ==
    \/ console # <<>>
    \/ buf[StreamOf(adapter["t1"])] # <<>>
    \/ part["t1"] # <<>>

\* C16: when the scheduler resumes the task after every yield and a byte
\* is there for the call (no other reader takes it), a read_blocked call on
\* a non-empty buffer returns in the end, with a positive count; a call
\* returns only with a positive count and no error, so it does not return
\* when no byte ever arrives
C16_ReturnsOnceInputArrives ==
    /\ (Waiting /\ blen["t1"] > 0 /\ Available)
          ~> (ReadBlockedReturned("t1") /\ ret["t1"] >= 1)
    /\ [](\A t \in Tasks :
            (ReadBlockedReturned(t) /\ blen[t] > 0) =>
                (arrived >= 1 /\ ret[t] >= 1 /\ err[t] = "none"))

\* a call has returned a full buffer after more yields than are counted
C16_Witness ==
    /\ ReadBlockedReturned("t1") /\ adapter["t1"] = "FileLike"
    /\ yields["t1"] = MaxCount /\ blen["t1"] = 2 /\ ret["t1"] = 2

\* the bytes q as a reader gets them
Translated(q) == [i \in 1..Len(q) |-> IF q[i] = CR THEN NL ELSE q[i]]

\* the bytes a read of the transport under way has pulled so far
InFlight(s) == IF lock[s] = "none" THEN <<>> ELSE part[lock[s]]

\* C19: on one buffered input stream, under every interleaving of
\* read_blocked and poll calls of the tasks, the bytes the read_blocked
\* calls returned, in the order of their return, then the bytes pulled from
\* the transport and not returned yet, then the bytes the console still
\* holds, are the bytes the console received, carriage return read as
\* newline: none is lost, doubled or out of place, a poll takes none away,
\* and with no read of the transport under way the internal buffer holds
\* exactly the bytes pulled and not returned
C19_StreamKeepsEveryByteInOrder ==
    /\ Translated(hist) =
          delivered \o buf["vfs"] \o InFlight("vfs") \o Translated(console)
    /\ Len(hist) = arrived
    /\ \A t \in Tasks : pres[t].called => pres[t].held = pres[t].readable

\* both tasks have returned bytes, one of them after a poll that found
\* the stream readable, and every byte received has been returned
C19_Witness ==
    \E t, u \in Tasks :
        /\ t # u
        /\ ReadBlockedReturned(t) /\ ret[t] >= 1
        /\ ReadBlockedReturned(u) /\ ret[u] >= 1
        /\ pres[t].called /\ pres[t].readable
        /\ Len(hist) = 2 /\ hist[1] = CR
        /\ delivered = Translated(hist)

\* x + y modulo 2147483647 for x and y below it
AddMod(x, y) == IF x >= RAND_MAX - y THEN x - (RAND_MAX - y) ELSE x + y

\* a * k modulo 2147483647 for a below it, by doubling
RECURSIVE TimesMod(_, _)
TimesMod(a, k) ==
    IF k = 0 THEN 0
    ELSE LET h == TimesMod(a, k \div 2)
             d == AddMod(h, h)
         IN  IF k % 2 = 1 THEN AddMod(d, a) ELSE d

\* (s * 48271) mod 2147483647 for a 32-bit s = hi * 2^31 + lo
Lehmer(s) == TimesMod(((s.lo % RAND_MAX) + s.hi) % RAND_MAX, 48271)

\* C17: a random() call that starts from the seed s, taken from the clock
\* when the stored one was 0, makes the four rounds
\* r1 = (s * 48271) mod 2147483647, r(k+1) = (r(k) * 48271) mod 2147483647,
\* returns them as the four 32-bit words of its value, r1 the most
\* significant, and leaves r4 as the stored seed; s is below 2^32, so the
\* product is below 2^48, and every round is below 2^31
C17_FourLehmerRounds ==
    \A g \in {"A", "B"} :
        /\ Len(ins[g]) = Len(outs[g])
        /\ \A k \in 1..Len(outs[g]) :
              LET s == ins[g][k]
                  r1 == Lehmer(s)
                  r2 == Lehmer(U32(0, r1))
                  r3 == Lehmer(U32(0, r2))
                  r4 == Lehmer(U32(0, r3))
              IN  /\ s.hi \in {0, 1} /\ s.lo \in 0..RAND_MAX
                  /\ outs[g][k] = <<r1, r2, r3, r4>>
                  /\ \A j \in 1..4 : outs[g][k][j] \in 0..RAND_MAX
                  /\ k = Len(outs[g]) => gen[g] = U32(0, r4)
                  /\ k < Len(outs[g]) =>
                        (r4 # 0 => ins[g][k + 1] = U32(0, r4))

\* an instance seeded with a value of 2^31 or more has made two calls
C17_Witness ==
    \E g \in {"A", "B"} :
        /\ Len(outs[g]) >= 2
        /\ ins[g][1].hi = 1
        /\ outs[g][1][1] # 0 /\ outs[g][2][4] # 0 /\ outs[g][2][4] # outs[g][1][4]

\* C20: the clock is read at the first random() call only: whatever 32-bit
\* tick it returns then, the stored seed after every call is in
\* 1..2147483646, so no later call finds it 0 and reads the clock again
C20_SeedNeverZeroAgain ==
    draws >= 1 => (seed.hi = 0 /\ seed.lo \in 1..(RAND_MAX - 1))

\* the names of the fixed listing, in order
FixedListing == << <<"0">>, <<"1">>, <<"2">> >>

\* C18: read_dir on /proc/self/fd with start index s and a buffer of c
\* entries returns min(c, max(0, 3 - s)) entries, the names s, s+1, ... of
\* "0", "1", "2" in increasing order, each a symlink; a caller that calls
\* it again with s advanced by the count returned, until it returns 0, has
\* then listed "0", "1", "2" once each, for every c >= 1
C18_ReadDirPaginates ==
    /\ dlast.called =>
          LET left == IF dlast.start >= 3 THEN 0 ELSE 3 - dlast.start
              n == Min(dlast.cap, left)
          IN  /\ dlast.count = n
              /\ Len(dlast.ents) = n
              /\ \A k \in 1..n :
                    /\ dlast.ents[k].name = FixedListing[dlast.start + k]
                    /\ dlast.ents[k].type = "SymLink"
    /\ dcap >= 1 =>
          /\ dnext = Len(dlist)
          /\ Len(dlist) <= 3
          /\ dlist = SubSeq(FixedListing, 1, Len(dlist))
          /\ ddone => dlist = FixedListing

\* a listing read two entries at a time has ended, and a read_dir from
\* the middle has filled a buffer of one entry
C18_Witness ==
    /\ ddone /\ dcap = 2 /\ dnext = 3
    /\ dlast.called /\ dlast.start = 1 /\ dlast.cap = 1 /\ dlast.count = 1

\* task t holds the Mutex of a stream
Holds(t) == \E s \in Streams : lock[s] = t

\* task t is at `self.inner.lock()` of a read attempt or of a poll
AtLock(t) == pc[t] \in {"lock", "plock"}

\* C21: a task holds the Mutex of the input stream only inside a read
\* attempt or a poll, never while it is suspended in yield_now: the guard
\* is dropped after each attempt, before the yield. So a task that wants
\* the lock finds it free or held by a task that is inside a transport
\* read and goes on to release it, whatever readers wait in yield_now:
\* readers and pollers of one stream do not deadlock
C21_NoLockHeldAcrossYield ==
    /\ \A t \in Tasks :
          /\ pc[t] = "yield" => ~Holds(t)
          /\ Holds(t) => pc[t] \in {"raw", "praw"}
          /\ AtLock(t) =>
                LET s == StreamOf(adapter[t]) IN
                \/ lock[s] = "none"
                \/ lock[s] # t /\ pc[lock[s]] \in {"raw", "praw"}
    /\ (\A t \in Tasks : pc[t] \in {"yield", "lock", "plock"}) =>
          \A s \in Streams : lock[s] = "none"

\* while the first task is suspended in yield_now the second one is inside
\* the transport read of a poll, the lock taken
C21_Witness ==
    /\ pc["t1"] = "yield" /\ yields["t1"] >= 1
    /\ pc["t2"] = "praw" /\ lock["vfs"] = "t2"

============================================================================
